---- MODULE Spec2Model ----
(***************************************************************************)
(* Model of bin-dec-hex-conv.py: the four base converters bintodec,        *)
(* dectobin, dectohex, hextodec, the two composites bintohex and hextobin, *)
(* and the script's EXECUTE block.                                         *)
(*                                                                         *)
(* Python values are records [t, v]: t is the Python type name ("int",     *)
(* "str", "NoneType", "list") or "raise" for an exception that left the    *)
(* function, v the payload.  A str payload is the sequence of its          *)
(* characters, each a one-character string; the token "U+0663" stands for  *)
(* the single character ARABIC-INDIC DIGIT THREE.                          *)
(***************************************************************************)
EXTENDS Integers, Sequences, FiniteSets, TLC

VARIABLES pc, val, hist, budget,
          dh_arg, dh_x, dh_n, dh_i, dh_value, dh_exit, dh_out,
          ex_lo, ex_hi, hw62231, hw62232, hw62

chainVars == <<val, hist, budget>>
loopVars == <<dh_arg, dh_x, dh_n, dh_i, dh_value, dh_exit, dh_out>>
execVars == <<ex_lo, ex_hi, hw62231, hw62232, hw62>>
vars == <<pc, chainVars, loopVars, execVars>>

---------------------------------------------------------------------------
(* Bounds of the model *)

\* largest integer handed to a converter by the caller
MaxN == 1111
\* longest chain of converter calls the caller makes on one value
MaxCalls == 3
\* longest string (prefix not counted) handed to a converter by the caller
MaxStrLen == 2
\* longest common digit prefix p of the two EXECUTE arguments
MaxPLen == 1
\* longest string over BinChars handed to a converter by the caller
MaxBinLen == 4

---------------------------------------------------------------------------
(* Python values *)

PyInt(n) == [t |-> "int", v |-> n]
PyStr(s) == [t |-> "str", v |-> s]
PyNone == [t |-> "NoneType", v |-> <<>>]
PyList == [t |-> "list", v |-> <<>>]
Raise(e) == [t |-> "raise", v |-> e]
Ch(c) == PyStr(<<c>>)

\* Python == between two values of the kinds above
PyEq(a, b) == a.t = b.t /\ a.v = b.v

RECURSIVE Pow(_, _)
Pow(b, e) == IF e = 0 THEN 1 ELSE b * Pow(b, e - 1)

AsciiDigits == {"0", "1", "2", "3", "4", "5", "6", "7", "8", "9"}
HexLetters == {"A", "B", "C", "D", "E", "F"}
HexDigits == AsciiDigits \cup HexLetters
\* characters int() reads as a decimal digit: the ASCII digits and every
\* other Unicode decimal digit, here U+0663
UnicodeDigits == {"U+0663"}
OtherChars == {"a", "f", "x", "X", "g"}
Chars == HexDigits \cup UnicodeDigits \cup OtherChars

DigitVal(c) ==
    CASE c = "0" -> 0 [] c = "1" -> 1 [] c = "2" -> 2 [] c = "3" -> 3
      [] c = "4" -> 4 [] c = "5" -> 5 [] c = "6" -> 6 [] c = "7" -> 7
      [] c = "8" -> 8 [] c = "9" -> 9 [] c = "U+0663" -> 3

DigitChar(d) ==
    CASE d = 0 -> "0" [] d = 1 -> "1" [] d = 2 -> "2" [] d = 3 -> "3"
      [] d = 4 -> "4" [] d = 5 -> "5" [] d = 6 -> "6" [] d = 7 -> "7"
      [] d = 8 -> "8" [] d = 9 -> "9"

\* int(s) of a string of decimal digits, most significant first
RECURSIVE DecValue(_, _)
DecValue(s, acc) ==
    IF Len(s) = 0 THEN acc ELSE DecValue(Tail(s), acc * 10 + DigitVal(Head(s)))

\* the builtin int(x): an int is itself, a str is read as a base-10 literal
\* (no sign, blank or underscore occurs in Chars), anything else is refused
PyIntOf(x) ==
    IF x.t = "int" THEN x
    ELSE IF x.t = "str"
         THEN IF Len(x.v) > 0
                 /\ \A k \in 1..Len(x.v) : x.v[k] \in AsciiDigits \cup UnicodeDigits
              THEN PyInt(DecValue(x.v, 0))
              ELSE Raise("ValueError")
         ELSE Raise("TypeError")

\* the builtin str(n) of a non-negative int
RECURSIVE DecDigits(_)
DecDigits(n) ==
    IF n < 10 THEN <<DigitChar(n)>> ELSE Append(DecDigits(n \div 10), DigitChar(n % 10))

\* the builtin str(e) of a list element
PyStrOf(e) == IF e.t = "int" THEN DecDigits(e.v) ELSE e.v

\* the builtin bin(n) of a non-negative int
RECURSIVE BinDigits(_)
BinDigits(n) ==
    IF n < 2 THEN <<DigitChar(n)>> ELSE Append(BinDigits(n \div 2), DigitChar(n % 2))

PyBin(n) == <<"0", "b">> \o BinDigits(n)

\* for j in range(len(y)): z.append(y.pop())
RECURSIVE PopAll(_, _, _)
PopAll(y, z, n) ==
    IF n = 0 THEN z
    ELSE PopAll(SubSeq(y, 1, Len(y) - 1), Append(z, y[Len(y)]), n - 1)

\* ''.join(l) of a list of strings
RECURSIVE Join(_)
Join(l) == IF Len(l) = 0 THEN <<>> ELSE Head(l) \o Join(Tail(l))

\* list.remove(e): drops the first element equal to e
RECURSIVE ListRemove(_, _)
ListRemove(l, e) ==
    IF Len(l) = 0 THEN l
    ELSE IF PyEq(Head(l), e) THEN Tail(l)
    ELSE <<Head(l)>> \o ListRemove(Tail(l), e)

---------------------------------------------------------------------------
(* bintodec *)

\* faulty variant of BinLoop: every character other than '0' counts as a one
RECURSIVE BinLoopNonZero(_, _, _, _)
BinLoopNonZero(z, k, value, power) ==
    IF k > Len(z) THEN value
    ELSE BinLoopNonZero(z, k + 1,
                        IF z[k] # "0" THEN value + Pow(2, power) ELSE value,
                        power + 1)

\* faulty variant of BinLoop: power += 1 sits inside the if
RECURSIVE BinLoopPowerInIf(_, _, _, _)
BinLoopPowerInIf(z, k, value, power) ==
    IF k > Len(z) THEN value
    ELSE IF z[k] = "1"
         THEN BinLoopPowerInIf(z, k + 1, value + Pow(2, power), power + 1)
         ELSE BinLoopPowerInIf(z, k + 1, value, power)

RECURSIVE BinLoop(_, _, _, _)
BinLoop(z, k, value, power) ==
    IF k > Len(z) THEN value
    ELSE BinLoop(z, k + 1,
                 IF z[k] = "1" THEN value + DigitVal(z[k]) * Pow(2, power) ELSE value,
                 power + 1)

\* faulty variant of bintodec: a number is converted with str() instead of
\* being refused
bintodecCoerce(x) ==
    IF x.t = "str" \/ x.t = "int"
    THEN LET y == IF x.t = "int" THEN DecDigits(x.v) ELSE x.v
             z == PopAll(y, <<>>, Len(y))
         IN  PyInt(BinLoop(z, 1, 0, 0))
    ELSE Raise("TypeError")

bintodec(x) ==
    IF x.t = "str"
    THEN LET y == x.v
             z == PopAll(y, <<>>, Len(y))
         IN  PyInt(BinLoop(z, 1, 0, 0))
    ELSE Raise("TypeError")

---------------------------------------------------------------------------
(* dectobin *)

dectobin(x) ==
    LET y == PyIntOf(x)
    IN  IF y.t = "raise" THEN y ELSE PyStr(PyBin(y.v))

---------------------------------------------------------------------------
(* dectohex *)

\* faulty variant of RangeBound: range(x // 16)
RangeBoundDiv(x) == x \div 16

\* range(x): the iteration bound, taken from the input once
RangeBound(x) == x

\* one pass of the loop body, x >= 16
DivideStep(x, value) == [x |-> x \div 16, value |-> Append(value, PyInt(x % 16))]

\* the last pass of the loop body, x < 16, ending in break
BreakStep(x, value) == Append(Append(value, PyInt(x % 16)), PyStr(<<"0", "x">>))

RECURSIVE DivLoop(_, _, _, _)
DivLoop(x, i, n, value) ==
    IF i >= n THEN value
    ELSE IF x >= 16
         THEN LET s == DivideStep(x, value) IN DivLoop(s.x, i + 1, n, s.value)
         ELSE BreakStep(x, value)

\* if value2[k] == n: value2[k] = c
Letter(e, n, c) == IF e.t = "int" /\ e.v = n THEN Ch(c) ELSE e

\* faulty variant of MapLetters: the test for 15 is missing
MapLettersNoF(e) ==
    Letter(Letter(Letter(Letter(Letter(e, 10, "A"), 11, "B"), 12, "C"),
                  13, "D"), 14, "E")

MapLetters(e) ==
    Letter(Letter(Letter(Letter(Letter(Letter(e, 10, "A"), 11, "B"), 12, "C"),
                         13, "D"), 14, "E"), 15, "F")

\* the tail of dectohex, from the reversal of value to the joined string
HexTail(value) ==
    LET value2 == PopAll(value, <<>>, Len(value))
        mapped == [k \in 1..Len(value2) |-> MapLetters(value2[k])]
    IN  Join([l \in 1..Len(mapped) |-> PyStrOf(mapped[l])])

SmallTail(x) == Join(<<PyStrOf(PyInt(x))>>)

dectohex(x) ==
    IF x.t # "int" THEN Raise("TypeError")
    ELSE IF x.v > 9
         THEN PyStr(HexTail(DivLoop(x.v, 0, RangeBound(x.v), <<>>)))
         ELSE PyStr(SmallTail(x.v))

---------------------------------------------------------------------------
(* hextodec *)

\* value[0] == '0' and value[1] == 'x' or value[0] == '0' and value[1] == 'X'
HasPrefix(value) ==
    \/ PyEq(value[1], Ch("0")) /\ PyEq(value[2], Ch("x"))
    \/ PyEq(value[1], Ch("0")) /\ PyEq(value[2], Ch("X"))

\* faulty variant of StripPrefix: a single value.remove(value[0])
StripPrefixOnce(value) == ListRemove(value, value[1])

\* value.remove(value[0]); value.remove(value[0])
StripPrefix(value) ==
    LET v1 == ListRemove(value, value[1]) IN ListRemove(v1, v1[1])

\* if value[j] == c: value[j] = n
Unletter(e, c, n) == IF PyEq(e, Ch(c)) THEN PyInt(n) ELSE e

\* the body of the loop over j: a character '0'..'9' becomes int(value[j]),
\* then 'A'..'F' become 10..15; every other element is left as it is
MapDigit(e) ==
    LET d == IF e.t = "str" /\ e.v[1] \in AsciiDigits THEN PyIntOf(e) ELSE e
    IN  Unletter(Unletter(Unletter(Unletter(Unletter(Unletter(d,
            "A", 10), "B", 11), "C", 12), "D", 13), "E", 14), "F", 15)

\* faulty variant of Weight: 16**(len(value)-k)
WeightOffByOne(len, k) == Pow(16, len - k)

\* 16**((len(value)-k)-1) for the element at list index k (0-based)
Weight(len, k) == Pow(16, (len - k) - 1)

\* the loop over k: value[k] = int(value[k]) * int(16**...); the first element
\* int() refuses ends the call with TypeError, whatever was computed before it
MulLoop(value) ==
    IF \E k \in 1..Len(value) : PyIntOf(value[k]).t = "raise"
    THEN Raise("TypeError")
    ELSE [t |-> "list", v |-> [k \in 1..Len(value) |->
                   PyIntOf(value[k]).v * Weight(Len(value), k - 1)]]

\* the loop over l: value2 += value[l]
RECURSIVE SumLoop(_, _, _)
SumLoop(value, l, value2) ==
    IF l > Len(value) THEN value2 ELSE SumLoop(value, l + 1, value2 + value[l])

hextodec(x) ==
    IF x.t # "str" THEN Raise("TypeError")
    ELSE LET value == [i \in 1..Len(x.v) |-> Ch(x.v[i])]
         IN  IF Len(value) = 0 THEN Raise("IndexError")
             ELSE IF PyEq(value[1], Ch("0")) /\ Len(value) < 2 THEN Raise("IndexError")
             ELSE LET stripped == IF HasPrefix(value) THEN StripPrefix(value) ELSE value
                      mapped == [j \in 1..Len(stripped) |-> MapDigit(stripped[j])]
                      prods == MulLoop(mapped)
                  IN  IF prods.t = "raise" THEN prods
                      ELSE PyInt(SumLoop(prods.v, 1, 0))

---------------------------------------------------------------------------
(* bintohex, hextobin *)

bintohex(x) ==
    LET y == bintodec(x) IN IF y.t = "raise" THEN y ELSE dectohex(y)

hextobin(x) ==
    LET y == hextodec(x) IN IF y.t = "raise" THEN y ELSE dectobin(y)

---------------------------------------------------------------------------
(* Inputs *)

\* the sequences over S of length at most n
RECURSIVE SeqsUpTo(_, _)
SeqsUpTo(S, n) ==
    IF n = 0 THEN {<<>>}
    ELSE LET T == SeqsUpTo(S, n - 1)
         IN  T \cup {Append(s, c) : s \in {t \in T : Len(t) = n - 1}, c \in S}

IntInputs == {PyInt(n) : n \in 0..MaxN}
NonStrInputs == {PyNone, PyList}
BareStrs == SeqsUpTo(Chars, MaxStrLen)
BinChars == {"0", "1", "x"}
StrInputs ==
    {PyStr(s) : s \in BareStrs \cup SeqsUpTo(BinChars, MaxBinLen)}
      \cup {PyStr(<<"0", "x">> \o s) : s \in BareStrs}
      \cup {PyStr(<<"0", "X">> \o s) : s \in BareStrs}
ExecArgs ==
    {<<"0", "x">> \o Append(p, d) : p \in SeqsUpTo(HexDigits, MaxPLen), d \in HexDigits}

Unset == [t |-> "unset", v |-> <<>>]

ChainIdle == val = Unset /\ hist = <<>> /\ budget = 0
LoopIdle ==
    /\ dh_arg = 0 /\ dh_x = 0 /\ dh_n = 0 /\ dh_i = 0
    /\ dh_value = <<>> /\ dh_exit = "none" /\ dh_out = Unset
ExecIdle ==
    /\ ex_lo = <<>> /\ ex_hi = <<>>
    /\ hw62231 = Unset /\ hw62232 = Unset /\ hw62 = Unset

---------------------------------------------------------------------------
(* A caller chaining converter calls, each on the value the one before     *)
(* returned (the script's test1..test10); an exception no one catches ends *)
(* the chain.                                                              *)

CanCall == pc = "chain" /\ Len(hist) < budget /\ val.t # "raise"

Returned(fn, out) ==
    /\ hist' = Append(hist, [fn |-> fn, arg |-> val, out |-> out])
    /\ val' = out
    /\ UNCHANGED <<pc, budget, loopVars, execVars>>

Call_bintodec == CanCall /\ Returned("bintodec", bintodec(val))

Call_dectobin == CanCall /\ Returned("dectobin", dectobin(val))

Call_dectohex == CanCall /\ Returned("dectohex", dectohex(val))

Call_hextodec == CanCall /\ Returned("hextodec", hextodec(val))

Call_bintohex == CanCall /\ Returned("bintohex", bintohex(val))

Call_hextobin == CanCall /\ Returned("hextobin", hextobin(val))

NextChain ==
    \/ Call_bintodec
    \/ Call_dectobin
    \/ Call_dectohex
    \/ Call_hextodec
    \/ Call_bintohex
    \/ Call_hextobin

\* chains that start from a number or another non-string value
Init ==
    /\ pc = "chain"
    /\ (val \in IntInputs \/ val \in NonStrInputs)
    /\ hist = <<>>
    /\ budget = MaxCalls
    /\ LoopIdle /\ ExecIdle

Next == NextChain

Spec == Init /\ [][Next]_vars

\* single calls on a string
InitStr ==
    /\ pc = "chain"
    /\ val \in StrInputs
    /\ hist = <<>>
    /\ budget = 1
    /\ LoopIdle /\ ExecIdle

SpecStr == InitStr /\ [][NextChain]_vars

---------------------------------------------------------------------------
(* dectohex, statement by statement *)

InitLoop ==
    /\ pc = "dh_entry"
    /\ dh_arg \in 0..MaxN
    /\ dh_x = dh_arg
    /\ dh_n = 0 /\ dh_i = 0
    /\ dh_value = <<>> /\ dh_exit = "none" /\ dh_out = Unset
    /\ ChainIdle /\ ExecIdle

\* if x > 9: value = []; for i in range(x):
DhEnter ==
    /\ pc = "dh_entry"
    /\ dh_x > 9
    /\ dh_n' = RangeBound(dh_x)
    /\ dh_value' = <<>>
    /\ pc' = "dh_for"
    /\ UNCHANGED <<dh_arg, dh_x, dh_i, dh_exit, dh_out, chainVars, execVars>>

\* else: value2 = [x], str, join, return
DhSmall ==
    /\ pc = "dh_entry"
    /\ ~(dh_x > 9)
    /\ dh_out' = PyStr(SmallTail(dh_x))
    /\ pc' = "dh_done"
    /\ UNCHANGED <<dh_arg, dh_x, dh_n, dh_i, dh_value, dh_exit, chainVars, execVars>>

\* the for statement takes the next i of range(x), or finds the range used up
DhFor ==
    /\ pc = "dh_for"
    /\ IF dh_i < dh_n
       THEN /\ dh_i' = dh_i + 1
            /\ pc' = "dh_body"
            /\ UNCHANGED dh_exit
       ELSE /\ dh_exit' = "exhausted"
            /\ pc' = "dh_tail"
            /\ UNCHANGED dh_i
    /\ UNCHANGED <<dh_arg, dh_x, dh_n, dh_value, dh_out, chainVars, execVars>>

\* if x >= 16: ...
DhDivide ==
    /\ pc = "dh_body"
    /\ dh_x >= 16
    /\ LET s == DivideStep(dh_x, dh_value)
       IN  dh_x' = s.x /\ dh_value' = s.value
    /\ pc' = "dh_for"
    /\ UNCHANGED <<dh_arg, dh_n, dh_i, dh_exit, dh_out, chainVars, execVars>>

\* else: ...; break
DhBreak ==
    /\ pc = "dh_body"
    /\ ~(dh_x >= 16)
    /\ dh_value' = BreakStep(dh_x, dh_value)
    /\ dh_exit' = "break"
    /\ pc' = "dh_tail"
    /\ UNCHANGED <<dh_arg, dh_x, dh_n, dh_i, dh_out, chainVars, execVars>>

\* the reversal, the letters, str, join, return
DhTail ==
    /\ pc = "dh_tail"
    /\ dh_out' = PyStr(HexTail(dh_value))
    /\ pc' = "dh_done"
    /\ UNCHANGED <<dh_arg, dh_x, dh_n, dh_i, dh_value, dh_exit, chainVars, execVars>>

NextLoop ==
    \/ DhEnter
    \/ DhSmall
    \/ DhFor
    \/ DhDivide
    \/ DhBreak
    \/ DhTail

SpecLoop == InitLoop /\ [][NextLoop]_vars

---------------------------------------------------------------------------
(* The EXECUTE block: two hextodec calls on literals that share all but    *)
(* their last digit, and the difference of the results.                    *)

InitExec ==
    /\ pc = "ex_first"
    /\ ex_lo \in ExecArgs
    /\ ex_hi \in {s \in ExecArgs :
                    SubSeq(s, 1, Len(s) - 1) = SubSeq(ex_lo, 1, Len(ex_lo) - 1)}
    /\ hw62231 = Unset /\ hw62232 = Unset /\ hw62 = Unset
    /\ ChainIdle /\ LoopIdle

\* hw62231 = hextodec(...)
ExecFirst ==
    /\ pc = "ex_first"
    /\ hw62231' = hextodec(PyStr(ex_lo))
    /\ pc' = IF hw62231'.t = "raise" THEN "ex_raised" ELSE "ex_second"
    /\ UNCHANGED <<ex_lo, ex_hi, hw62232, hw62, chainVars, loopVars>>

\* hw62232 = hextodec(...)
ExecSecond ==
    /\ pc = "ex_second"
    /\ hw62232' = hextodec(PyStr(ex_hi))
    /\ pc' = IF hw62232'.t = "raise" THEN "ex_raised" ELSE "ex_sub"
    /\ UNCHANGED <<ex_lo, ex_hi, hw62231, hw62, chainVars, loopVars>>

\* hw62 = hw62232 - hw62231
ExecSub ==
    /\ pc = "ex_sub"
    /\ hw62' = PyInt(hw62232.v - hw62231.v)
    /\ pc' = "ex_done"
    /\ UNCHANGED <<ex_lo, ex_hi, hw62231, hw62232, chainVars, loopVars>>

NextExec ==
    \/ ExecFirst
    \/ ExecSecond
    \/ ExecSub

SpecExec == InitExec /\ [][NextExec]_vars

---------------------------------------------------------------------------
(* Reference definitions the properties are stated with *)

HexVal(c) ==
    CASE c = "0" -> 0 [] c = "1" -> 1 [] c = "2" -> 2 [] c = "3" -> 3
      [] c = "4" -> 4 [] c = "5" -> 5 [] c = "6" -> 6 [] c = "7" -> 7
      [] c = "8" -> 8 [] c = "9" -> 9 [] c = "A" -> 10 [] c = "B" -> 11
      [] c = "C" -> 12 [] c = "D" -> 13 [] c = "E" -> 14 [] c = "F" -> 15

RECURSIVE SeqSum(_)
SeqSum(q) == IF Len(q) = 0 THEN 0 ELSE Head(q) + SeqSum(Tail(q))

\* sum over the digit positions i (0-based) of digit_value[i] * 16^(length-1-i)
HexSum(d) ==
    SeqSum([j \in 1..Len(d) |-> HexVal(d[j]) * Pow(16, Len(d) - 1 - (j - 1))])

\* sum of 2^p over the positions p, counted from the right, that hold '1'
OnesSum(s) ==
    SeqSum([j \in 1..Len(s) |->
               IF s[Len(s) - (j - 1)] = "1" THEN Pow(2, j - 1) ELSE 0])

Prefixed(s) == Len(s) >= 2 /\ s[1] = "0" /\ s[2] \in {"x", "X"}
Unprefixed(s) == IF Prefixed(s) THEN SubSeq(s, 3, Len(s)) ELSE s
AllHex(d) == \A k \in 1..Len(d) : d[k] \in HexDigits

\* the number of hexadecimal digits of n >= 0
NumHexDigits(n) == CHOOSE d \in 1..8 : (d = 1 \/ Pow(16, d - 1) <= n) /\ n < Pow(16, d)

\* loop while magnitude >= 16, else emit final digit and radix marker and stop
RECURSIVE WhileLoop(_)
WhileLoop(x) ==
    IF x >= 16 THEN <<PyInt(x % 16)>> \o WhileLoop(x \div 16)
    ELSE <<PyInt(x % 16), PyStr(<<"0", "x">>)>>

Calls == 1..Len(hist)
IsCall(i, fn) == i \in Calls /\ hist[i].fn = fn
IsIntRet(r, n) == r.t = "int" /\ r.v = n
IsStrRet(r, s) == r.t = "str" /\ r.v = s
Last(s) == s[Len(s)]

---------------------------------------------------------------------------
(* Properties *)

\* C1: hex round trip. Whenever dectohex is called on an integer n >= 0 and
\* hextodec is called next on what it returned, hextodec returns normally
\* and returns n (n = 0 and the unprefixed results for n <= 9 included).
C1_HexRoundTrip ==
    \A i \in Calls :
        (IsCall(i, "dectohex") /\ hist[i].arg.t = "int" /\ IsCall(i + 1, "hextodec"))
            => IsIntRet(hist[i + 1].out, hist[i].arg.v)

\* C2: binary round trip. Whenever dectobin is called on an integer n >= 0
\* and bintodec is called next on what it returned, dectobin's result is a
\* string starting with "0b", bintodec receives exactly that string, and
\* bintodec returns n.
C2_BinRoundTrip ==
    \A i \in Calls :
        (IsCall(i, "dectobin") /\ hist[i].arg.t = "int" /\ IsCall(i + 1, "bintodec"))
            => /\ hist[i].out.t = "str"
               /\ SubSeq(hist[i].out.v, 1, 2) = <<"0", "b">>
               /\ PyEq(hist[i + 1].arg, hist[i].out)
               /\ IsIntRet(hist[i + 1].out, hist[i].arg.v)

C2_Witness ==
    /\ IsCall(1, "dectobin") /\ IsCall(2, "bintodec")
    /\ IsIntRet(hist[1].arg, 300)
    /\ IsStrRet(hist[1].out, <<"0", "b", "1", "0", "0", "1", "0", "1", "1", "0", "0">>)
    /\ IsIntRet(hist[2].out, 300)

\* C3: for every hex string with at least one digit, prefixed with 0x/0X or
\* not, hextodec returns the positional sum of the digits that follow the
\* prefix, and on a prefixed string it returns what it returns on the same
\* digits without the prefix.
C3_HexSum ==
    \A i \in Calls :
        (IsCall(i, "hextodec") /\ hist[i].arg.t = "str"
           /\ AllHex(Unprefixed(hist[i].arg.v)) /\ Len(Unprefixed(hist[i].arg.v)) >= 1)
            => /\ IsIntRet(hist[i].out, HexSum(Unprefixed(hist[i].arg.v)))
               /\ PyEq(hist[i].out, hextodec(PyStr(Unprefixed(hist[i].arg.v))))

\* C4: whenever hextodec is called on a string that, after the optional
\* 0x/0X prefix, holds a character outside 0-9 and A-F, the call raises
\* TypeError and returns no value.
C4_BadCharRaises ==
    \A i \in Calls :
        (IsCall(i, "hextodec") /\ hist[i].arg.t = "str"
           /\ ~AllHex(Unprefixed(hist[i].arg.v)))
            => hist[i].out.t = "raise" /\ hist[i].out.v = "TypeError"

\* C5: dectohex of an integer x > 9 is "0x" followed by the uppercase hex
\* digits of x, most significant first, without a leading zero; of an
\* integer 0 <= x <= 9 it is the one decimal digit of x, without prefix;
\* dectohex(0) = "0" and dectohex(10) = "0xA".
C5_DecToHex ==
    \A i \in Calls :
        (IsCall(i, "dectohex") /\ hist[i].arg.t = "int")
            => LET x == hist[i].arg.v
                   out == hist[i].out
               IN  /\ out.t = "str"
                   /\ x > 9 => /\ Len(out.v) >= 3
                               /\ SubSeq(out.v, 1, 2) = <<"0", "x">>
                               /\ AllHex(SubSeq(out.v, 3, Len(out.v)))
                               /\ out.v[3] # "0"
                               /\ HexSum(SubSeq(out.v, 3, Len(out.v))) = x
                   /\ x <= 9 => out.v = <<DigitChar(x)>>
                   /\ x = 0 => out.v = <<"0">>
                   /\ x = 10 => out.v = <<"0", "x", "A">>

C5_Witness ==
    /\ \E i \in Calls : IsCall(i, "dectohex") /\ IsIntRet(hist[i].arg, 255)
                          /\ IsStrRet(hist[i].out, <<"0", "x", "F", "F">>)
    /\ IsCall(1, "dectohex") /\ IsIntRet(hist[1].arg, 255)

\* C6: bintodec of any string raises nothing and returns the sum of 2^p over
\* the positions p, counted from the right, that hold '1'; prepending '0'
\* characters leaves the result unchanged; bintodec("1111") = 15.
C6_BinToDec ==
    \A i \in Calls :
        (IsCall(i, "bintodec") /\ hist[i].arg.t = "str")
            => LET s == hist[i].arg.v
               IN  /\ IsIntRet(hist[i].out, OnesSum(s))
                   /\ \A z \in 1..3 :
                        PyEq(bintodec(PyStr([k \in 1..z |-> "0"] \o s)), hist[i].out)
                   /\ s = <<"1", "1", "1", "1">> => hist[i].out.v = 15

C6_Witness ==
    /\ IsCall(1, "bintodec")
    /\ IsStrRet(hist[1].arg, <<"1", "x", "0", "1">>)
    /\ IsIntRet(hist[1].out, 9)

\* C7: bintodec and hextodec, called with a value that is not a string,
\* raise TypeError and return no value.
C7_NonStringRaises ==
    \A i \in Calls :
        ((IsCall(i, "bintodec") \/ IsCall(i, "hextodec")) /\ hist[i].arg.t # "str")
            => hist[i].out.t = "raise" /\ hist[i].out.v = "TypeError"

C7_Witness ==
    /\ IsCall(1, "bintodec")
    /\ IsIntRet(hist[1].arg, 1111)
    /\ hist[1].out.t = "raise" /\ hist[1].out.v = "TypeError"

\* C8: for two EXECUTE arguments "0x" + p + d1 and "0x" + p + d2 the script
\* runs to the subtraction and the difference of the two hextodec results
\* is value(d1) - value(d2).
C8_LastDigitDifference ==
    /\ pc # "ex_raised"
    /\ pc = "ex_done" => IsIntRet(hw62, HexVal(Last(ex_hi)) - HexVal(Last(ex_lo)))

C8_Witness ==
    /\ pc = "ex_done"
    /\ ex_hi = <<"0", "x", "6", "8">>
    /\ ex_lo = <<"0", "x", "6", "0">>
    /\ IsIntRet(hw62, 8)

\* C9: for x > 9 the division loop of dectohex never uses up range(x): it
\* leaves through break, after as many iterations as x has hex digits, with
\* the list a 'while magnitude >= 16' loop builds.
C9_LoopLeavesByBreak ==
    /\ dh_exit # "exhausted"
    /\ (pc \in {"dh_tail", "dh_done"} /\ dh_arg > 9)
         => /\ dh_exit = "break"
            /\ dh_i = NumHexDigits(dh_arg)
            /\ dh_value = WhileLoop(dh_arg)

C9_Witness ==
    /\ pc = "dh_done" /\ dh_arg = 300 /\ dh_i = 3 /\ dh_exit = "break"
    /\ IsStrRet(dh_out, <<"0", "x", "1", "2", "C">>)

\* C10: composite round trip. For an integer n >= 1 and h = dectohex(n),
\* hextobin called next on h returns dectobin(n), and bintohex called next
\* on that returns h.
C10_CompositeRoundTrip ==
    \A i \in Calls :
        (IsCall(i, "dectohex") /\ hist[i].arg.t = "int" /\ hist[i].arg.v >= 1
           /\ IsCall(i + 1, "hextobin"))
            => /\ PyEq(hist[i + 1].out, dectobin(hist[i].arg))
               /\ hist[i + 1].out.t = "str"
               /\ IsCall(i + 2, "bintohex") => PyEq(hist[i + 2].out, hist[i].out)

C10_Witness ==
    /\ IsCall(1, "dectohex") /\ IsCall(2, "hextobin") /\ IsCall(3, "bintohex")
    /\ IsIntRet(hist[1].arg, 171)
    /\ IsStrRet(hist[1].out, <<"0", "x", "A", "B">>)
    /\ IsStrRet(hist[3].out, <<"0", "x", "A", "B">>)

====
